---- MODULE Spec2Model ----
(***************************************************************************)
(* A model of the starchain Blockchain / Block classes                     *)
(* (src/src/blockchain.js lines 1-284, src/src/block.js, src/src/helpers). *)
(*                                                                         *)
(* Block objects live in a heap and the chain array holds references to    *)
(* them, as in JavaScript.  Every asynchronous method is cut at its        *)
(* `await`s: the part that runs synchronously inside the call is one       *)
(* action, every continuation is one step taken from the head of the       *)
(* microtask queue (FIFO, as the JavaScript job queue is).                 *)
(***************************************************************************)
EXTENDS Integers, Sequences, FiniteSets, TLC

VARIABLES
  chain,      \* Blockchain.chain   : sequence of references to Block objects
  height,     \* Blockchain.height  : cached height
  heap,       \* the Block objects ever constructed, by reference (1..Len(heap))
  clock,      \* new Date().getTime(), in milliseconds
  calls,      \* one record per method call made on the Blockchain (its promise and locals)
  queue,      \* the microtask queue: calls whose continuation is waiting to run
  tamperLog   \* the out-of-band writes made to stored blocks so far: <<index, field>>

vars == <<chain, height, heap, clock, calls, queue, tamperLog>>

----------------------------------------------------------------------------
(* Bounds of the model *)

\* calls made on the chain after construction
MaxCalls == 2
\* out-of-band writes to stored blocks
MaxTampers == 1
\* calls of getStarsByWalletAddress
MaxLookups == 1
\* advances of the wall clock
MaxTicks == 1
\* the wall clock at construction (ms) and the size of one advance (ms)
Clock0 == 1000500
TickMs == 500

Addresses == {"addrA", "addrB"}
Stars == {"Polaris"}
\* now - issue_time (seconds) of the challenges that are submitted
Ages == {-1, 300, 301, 600}
\* the answers of bitcoinMessage.verify: true, false, or an exception
OracleAnswers == {"true", "false", "throws"}
\* heights a caller may have written into a block it hands to _addBlock
CallerHeights == {7}

----------------------------------------------------------------------------
(* helpers.js *)

\* new Date().getTime().toString().slice(0, -3): the decimal string without its
\* last three digits, i.e. whole seconds (the string is kept as the number it spells)
getTimeStamp(ms) == ms \div 1000

minuteToSeconds(minutes) == minutes * 60

\* Blockchain.limitTime, set once by the constructor
limitTime == minuteToSeconds(5)

----------------------------------------------------------------------------
(* block.js *)

\* JavaScript null, for the hash fields
Null == <<>>

\* JSON.stringify(data) of {data: ...}, then Buffer(...).toString("hex")
JSONstringifyData(d) == <<"{data}">> \o d
toHex(s) == <<"hex">> \o s

GenesisData == <<"Genesis Block">>
StarData(address, star) == <<address, star>>

\* new Block(data)
NewBlock(data) ==
  [hash |-> Null, height |-> 0, body |-> toHex(JSONstringifyData(data)),
   time |-> 0, previousBlockHash |-> Null]

\* JSON.stringify(this): the own fields in the order the constructor creates them
JSONstringify(b) == <<b.hash, b.height, b.body, b.time, b.previousBlockHash>>

\* SHA256(...).toString(): the digest oracle, collision free (the digest is
\* represented by the text it was computed from)
SHA256(s) == <<"sha256", s>>

_hashBlock(b) == SHA256(JSONstringify(b))

\* Block.validate(): the stored hash against the digest of the block with hash = null
validate(b) == b.hash = _hashBlock([b EXCEPT !.hash = Null])

\* the Block object when validate() has returned: it keeps the hash in currentHash,
\* writes null into the field, computes the digest and writes currentHash back, all
\* before the executor returns
validated_cleared(b) == [b EXCEPT !.hash = Null]
validated(b) ==
  LET currentHash == b.hash
      cleared == [b EXCEPT !.hash = Null]
  IN  [cleared EXCEPT !.hash = currentHash]

setHeight_keep(b, h) == b
setHeight(b, h) == [b EXCEPT !.height = h]

setPreviousHash(b, h) == IF h # Null THEN [b EXCEPT !.previousBlockHash = h] ELSE b

setTimeStamp(b, ms) == [b EXCEPT !.time = getTimeStamp(ms)]

setHash(b) == [b EXCEPT !.hash = _hashBlock(b)]

----------------------------------------------------------------------------
(* Values of the challenge message and of parseInt *)

\* a numeric result of parseInt, and NaN
Num(n) == [nan |-> FALSE, val |-> n]
NaN == [nan |-> TRUE, val |-> 0]

\* a - b and a > b on JavaScript numbers: NaN is absorbing, every comparison with NaN is false
Minus(a, b) == IF a.nan \/ b.nan THEN NaN ELSE Num(a.val - b.val)
GreaterThan(a, b) == ~a.nan /\ ~b.nan /\ a.val > b.val

\* the text of one colon-separated field of a message: digits, or something else
Digits(n) == <<"digits", n>>
Text(s) == <<"text", s>>

\* parseInt(field); a missing field (undefined) parses to NaN
parseInt(message, k) ==
  IF k + 1 <= Len(message) /\ message[k + 1][1] = "digits"
    THEN Num(message[k + 1][2])
    ELSE NaN

\* requestMessageOwnershipVerification(address) at wall-clock time ms:
\* `${address}:${getTimeStamp()}:starRegistry`, kept split at the colons
requestMessageOwnershipVerification(address, ms) ==
  <<Text(address), Digits(getTimeStamp(ms)), Text("starRegistry")>>

\* the messages handed to submitStar: challenges issued `age` seconds before now,
\* a string without any colon, and one whose second field is not a number
Messages(address, ms) ==
  {requestMessageOwnershipVerification(address, ms - 1000 * age) : age \in Ages}
    \cup {<<Text(address)>>, <<Text(address), Text("soon"), Text("starRegistry")>>}

----------------------------------------------------------------------------
(* blockchain.js: errors *)

AddNewBlockError(msg) == <<"AddNewBlockError", msg>>
SubmitStarError(msg) == <<"SubmitStarError", msg>>
NoError == <<>>

TooMuchTime == "Too much time passed between request validation and submit"
ValidationFailed == "Validation for your message failed!"
ChainIsInvalid == "Chain is invalid!"
OracleThrew == "verify threw"

\* ValidationErrorLog entries
BlockIsNotValid(b) == <<"Block is not valid", b.hash, b.height>>
BlockIsWronglyLinked(b, prev) ==
  <<"Block is wrongly linked", b.hash, b.height, b.previousBlockHash, prev.hash>>

----------------------------------------------------------------------------
(* blockchain.js: the state of one call *)

\* the Block object chain[i] of the JavaScript array (i counts from 0)
BlockAt(hp, ch, i) == hp[ch[i + 1]]

\* the blocks of the chain, by value
ChainBlocks(hp, ch) == [k \in 1..Len(ch) |-> hp[ch[k]]]

\* a call that has just been made
\*   kind     the method: "init" (the constructor's initializeChain), "append"
\*            (_addBlock called directly), "submit" (submitStar), "validate"
\*            (validateChain), "stars" (getStarsByWalletAddress)
\*   pc       where its continuation resumes: "loop" after `await block.validate()`,
\*            "decode" after `await block.getBData()`,
\*            "resume" after `await self.validateChain()`, "settle" after
\*            `await this._addBlock(newBlock)`, "done"
\*   block    the reference of the block handed to _addBlock (0: none)
\*   i, valid, errorLog   validateChain's locals (valid: the awaited blockIsNotTampered)
\*   status, error, result   the promise the caller holds; result is the block resolved with
\*   inner    the settlement of the awaited _addBlock promise, for submitStar
\*   delta, oracle   currentTime - messageTime and the oracle's answer, for submitStar
\*   preChain, preHeight   the chain (by value) and height when the call was made
\*   address, slice, got, stars   getStarsByWalletAddress's argument and locals: the
\*            copy chainWithoutGenesisBlock (references), the awaited settlement of
\*            block.getBData(), and the records pushed so far
\*   from     the blocks (references) the records in stars were decoded from
\*   verifyCalled   whether submitStar has called bitcoinMessage.verify
NewCall(kind) ==
  [kind |-> kind, pc |-> "done", block |-> 0, i |-> 0, valid |-> TRUE,
   errorLog |-> <<>>, status |-> "pending", error |-> NoError, result |-> 0,
   inner |-> NoError, delta |-> NaN, oracle |-> "none",
   preChain |-> ChainBlocks(heap, chain), preHeight |-> height,
   address |-> "none", slice |-> <<>>, got |-> <<>>, stars |-> <<>>, from |-> <<>>,
   verifyCalled |-> FALSE]

\* a settled call keeps its promise and its arguments only
Settled(c, status, error, result) ==
  [c EXCEPT !.pc = "done", !.status = status, !.error = error, !.result = result,
            !.i = 0, !.valid = TRUE, !.inner = NoError,
            !.errorLog = IF c.kind = "validate" THEN c.errorLog ELSE <<>>,
            !.preChain = <<>>, !.preHeight = 0, !.slice = <<>>, !.got = <<>>]

\* when the next call is made, the arguments of the calls already rejected are dropped
\* (their promises stay: kind, status, the error's name)
Forget(c) ==
  IF c.status # "rejected"
    THEN c
    ELSE [c EXCEPT !.delta = NaN, !.oracle = "none", !.error = <<c.error[1]>>,
                   !.verifyCalled = FALSE]
Archive == [p \in 1..Len(calls) |-> Forget(calls[p])]

Pending == {p \in 1..Len(calls) : calls[p].status = "pending"}
Idle == queue = <<>>

----------------------------------------------------------------------------
(* blockchain.js: validateChain *)

\* the heap after chain[i].validate() has been called
afterValidate(hp, i) == [hp EXCEPT ![chain[i + 1]] = validated(hp[chain[i + 1]])]

\* the heap after the synchronous start of validateChain()
validateChainStartHeap(hp) == IF Len(chain) = 0 THEN hp ELSE afterValidate(hp, 0)

\* the heap after the loop of call c has resumed and run to its next await
validateChainLoopHeap(c) ==
  IF c.i + 1 < Len(chain) THEN afterValidate(heap, c.i + 1) ELSE heap

\* the synchronous start of validateChain(): with an empty chain the loop is skipped
\* and resolve(errorLog) runs at once; otherwise chain[0].validate() is evaluated and
\* the loop waits at its first await
validateChainStart(c, hp) ==
  IF Len(chain) = 0
    THEN [c EXCEPT !.pc = "resume", !.i = 0, !.errorLog = <<>>]
    ELSE [c EXCEPT !.pc = "loop", !.i = 0, !.errorLog = <<>>,
                   !.valid = validate(BlockAt(hp, chain, 0))]

\* the issues one iteration of the loop adds for chain[i], after its await
Issues_recomputedLink(c) ==
  LET block == BlockAt(heap, chain, c.i)
  IN  (IF ~c.valid THEN <<BlockIsNotValid(block)>> ELSE <<>>)
      \o (IF /\ block.previousBlockHash # Null
             /\ c.i >= 1
             /\ block.previousBlockHash #
                  _hashBlock([BlockAt(heap, chain, c.i - 1) EXCEPT !.hash = Null])
            THEN <<BlockIsWronglyLinked(block, BlockAt(heap, chain, c.i - 1))>>
            ELSE <<>>)
Issues(c) ==
  LET block == BlockAt(heap, chain, c.i)
  IN  (IF ~c.valid THEN <<BlockIsNotValid(block)>> ELSE <<>>)
      \o (IF /\ block.previousBlockHash # Null
             /\ c.i >= 1
             /\ block.previousBlockHash # BlockAt(heap, chain, c.i - 1).hash
            THEN <<BlockIsWronglyLinked(block, BlockAt(heap, chain, c.i - 1))>>
            ELSE <<>>)

\* the loop resumed after `await block.validate()`: record the issues of chain[i],
\* then either evaluate chain[i+1].validate() and wait again, or resolve(errorLog)
validateChainLoop_stuck(c) == c
validateChainLoop(c) ==
  LET log == c.errorLog \o Issues(c)
  IN  IF c.i + 1 < Len(chain)
        THEN [c EXCEPT !.errorLog = log, !.i = c.i + 1,
                       !.valid = validate(BlockAt(heap, chain, c.i + 1))]
        ELSE IF c.kind = "validate"
               THEN Settled([c EXCEPT !.errorLog = log], "resolved", NoError, 0)
               ELSE [c EXCEPT !.errorLog = log, !.pc = "resume"]

----------------------------------------------------------------------------
(* blockchain.js: _addBlock *)

\* the block _addBlock seals: previous hash from the tail of the chain (null when the
\* chain is empty, which setPreviousHash ignores), time stamp, height = chain.length
\* (never negative, so setHeight does not throw), then the hash
tailHash_first(hp) == IF Len(chain) = 0 THEN Null ELSE BlockAt(hp, chain, 0).hash
tailHash(hp) == IF Len(chain) = 0 THEN Null ELSE BlockAt(hp, chain, Len(chain) - 1).hash

\* block.setPreviousHash(...).setTimeStamp().setHeight(...).setHash()
sealWith(b, previousHash, ms, h) ==
  setHash(setHeight(setTimeStamp(setPreviousHash(b, previousHash), ms), h))

seal(b, hp) == sealWith(b, tailHash(hp), clock, Len(chain))

\* the synchronous part of _addBlock(block) for call record c: seal the block in place,
\* call validateChain() and wait for it
addBlockStart(c, ref, hp) ==
  LET sealed == [hp EXCEPT ![ref] = seal(hp[ref], hp)]
  IN  [heap |-> validateChainStartHeap(sealed),
       call |-> validateChainStart([c EXCEPT !.block = ref], sealed)]

\* the outcome of _addBlock resumed after `await self.validateChain()`:
\* reject when the error log is not empty, else push and count the block
addBlockRejects_never(c) == FALSE
addBlockRejects(c) == c.errorLog # <<>>

\* `self.height++`, which follows the push
counted_not(h) == h
counted(h) == h + 1

----------------------------------------------------------------------------
(* blockchain.js: getBlockByHash, getBlockByHeight *)

\* the first element of the chain that satisfies a test, as a reference; 0 stands for
\* the undefined of Array.find and of [][0]
firstOf(found) == IF found = {} THEN 0 ELSE chain[CHOOSE k \in found : \A j \in found : k <= j]

\* what getBlockByHash(hash) resolves with: self.chain.find((b) => b.hash === hash)
getBlockByHash(hash) == firstOf({k \in 1..Len(chain) : heap[chain[k]].hash = hash})

\* what getBlockByHeight(h) resolves with: self.chain.filter((p) => p.height === h)[0],
\* or null (0 as well) when there is none
getBlockByHeight(h) == firstOf({k \in 1..Len(chain) : heap[chain[k]].height = h})

----------------------------------------------------------------------------
(* block.js: getBData, and blockchain.js: getStarsByWalletAddress *)

GetStarByOwnerError(msg) == <<"GetStarByOwnerError", msg>>
ThisIsGenesisBlock == "This is Genesis Block!"
SyntaxError == "SyntaxError"

\* hex2ascii(body): the string a hex body spells; anything else spells no JSON text
hex2ascii(body) == IF Len(body) >= 1 /\ body[1] = "hex" THEN Tail(body) ELSE <<"garbled">>

\* whether JSON.parse(text) returns, and the `data` member of what it returns
parses(text) == Len(text) >= 1 /\ text[1] = "{data}"
JSONparseData(text) == Tail(text)

\* data.owner: the first member of a star record, undefined for any other data
owner(data) == IF Len(data) = 2 THEN data[1] ELSE "undefined"

\* the test `data.owner === address` of getStarsByWalletAddress
ownedBy_all(data, address) == TRUE
ownedBy(data, address) == owner(data) = address

\* the settlement of block.getBData(): reject() is called for a block without a
\* previous hash or with a falsy height, and the resolve() after it has no effect;
\* otherwise the body is decoded and parsed
getBData(b) ==
  IF b.previousBlockHash = Null \/ b.height = 0
    THEN <<"rejected", ThisIsGenesisBlock>>
    ELSE IF parses(hex2ascii(b.body))
           THEN <<"resolved", JSONparseData(hex2ascii(b.body))>>
           ELSE <<"rejected", SyntaxError>>

\* this.chain.slice(1)
sliceOne_whole(ch) == ch
sliceOne(ch) == SubSeq(ch, 2, Len(ch))

\* the synchronous start of getStarsByWalletAddress(address): copy the chain without
\* its first element; with an empty copy resolve([]) at once, else call getBData() of
\* its first block and wait
getStarsStart(c, address) ==
  LET chainWithoutGenesisBlock == sliceOne(chain)
      d == [c EXCEPT !.address = address]
  IN  IF chainWithoutGenesisBlock = <<>>
        THEN Settled(d, "resolved", NoError, 0)
        ELSE [d EXCEPT !.pc = "decode", !.i = 0, !.slice = chainWithoutGenesisBlock,
                       !.got = getBData(heap[chainWithoutGenesisBlock[1]])]

\* the loop resumed after `await block.getBData()`: a rejection is caught and rejects
\* the lookup; else the record is pushed when its owner is the address, and the loop
\* calls getBData() of the next block or resolves with the records
getStarsLoop(c) ==
  IF c.got[1] = "rejected"
    THEN Settled(c, "rejected", GetStarByOwnerError(c.got[2]), 0)
    ELSE LET data == c.got[2]
             mine == ownedBy(data, c.address)
             d == [c EXCEPT !.stars = IF mine THEN Append(c.stars, data) ELSE c.stars,
                            !.from = IF mine THEN Append(c.from, c.slice[c.i + 1])
                                             ELSE c.from]
         IN  IF c.i + 1 < Len(c.slice)
               THEN [d EXCEPT !.i = c.i + 1, !.got = getBData(heap[c.slice[c.i + 2]])]
               ELSE Settled(d, "resolved", NoError, 0)

----------------------------------------------------------------------------
(* The state after `new Blockchain()` has returned: the constructor has run       *)
(* initializeChain() up to its first await, that is _addBlock(genesis) up to      *)
(* `await self.validateChain()`; the chain is still empty.                         *)

Init ==
  /\ chain = <<>>
  /\ height = -1
  /\ clock = Clock0
  /\ tamperLog = <<>>
  /\ LET blank == [kind |-> "init", pc |-> "done", block |-> 0, i |-> 0, valid |-> TRUE,
                   errorLog |-> <<>>, status |-> "pending", error |-> NoError,
                   result |-> 0, inner |-> NoError, delta |-> NaN, oracle |-> "none",
                   preChain |-> <<>>, preHeight |-> -1,
                   address |-> "none", slice |-> <<>>, got |-> <<>>, stars |-> <<>>,
                   from |-> <<>>, verifyCalled |-> FALSE]
         hp0 == <<NewBlock(GenesisData)>>
         sealed == [hp0 EXCEPT ![1] = sealWith(hp0[1], Null, Clock0, 0)]
     IN  /\ heap = sealed
         /\ calls = <<[blank EXCEPT !.block = 1, !.pc = "resume"]>>
  /\ queue = <<1>>

----------------------------------------------------------------------------
(* Calls made by the application *)

MayCall == Len(calls) < MaxCalls + 1

\* bc._addBlock(block) with a block the caller has just constructed (and may have
\* written a height into)
StartAppend(address, star, callerHeight) ==
  /\ MayCall
  /\ LET raw == [NewBlock(StarData(address, star)) EXCEPT !.height = callerHeight]
         ref == Len(heap) + 1
         r == addBlockStart(NewCall("append"), ref, Append(heap, raw))
     IN  /\ heap' = r.heap
         /\ calls' = Append(Archive, r.call)
         /\ queue' = Append(queue, Len(calls) + 1)
  /\ UNCHANGED <<chain, height, clock, tamperLog>>

\* bc._addBlock(block) with a Block object that was handed to _addBlock before (the
\* genesis block, a committed block, or the block of a rejected append): it is sealed
\* again in place
StartReappend(ref) ==
  /\ MayCall
  /\ ref \in 1..Len(heap)
  /\ LET r == addBlockStart(NewCall("append"), ref, heap)
     IN  /\ heap' = r.heap
         /\ calls' = Append(Archive, r.call)
         /\ queue' = Append(queue, Len(calls) + 1)
  /\ UNCHANGED <<chain, height, clock, tamperLog>>

\* the freshness test of submitStar
expired_inclusive(delta) == ~delta.nan /\ delta.val >= limitTime
expired_window(delta) == ~delta.nan /\ (delta.val > limitTime \/ delta.val < 0)
expired(delta) == GreaterThan(delta, Num(limitTime))

\* the signature test of submitStar, on the oracle's answer
verified_always(answer) == TRUE
verified(answer) == answer = "true"

\* the checks of submitStar in the order it makes them: the error it throws (none when
\* both pass) and whether bitcoinMessage.verify was called on the way
submitChecks_oracleFirst(delta, answer) ==
  IF answer = "throws"
    THEN [error |-> SubmitStarError(OracleThrew), verifyCalled |-> TRUE]
    ELSE IF ~verified(answer)
      THEN [error |-> SubmitStarError(ValidationFailed), verifyCalled |-> TRUE]
      ELSE IF expired(delta)
        THEN [error |-> SubmitStarError(TooMuchTime), verifyCalled |-> TRUE]
        ELSE [error |-> NoError, verifyCalled |-> TRUE]
submitChecks(delta, answer) ==
  IF expired(delta)
    THEN [error |-> SubmitStarError(TooMuchTime), verifyCalled |-> FALSE]
    ELSE IF answer = "throws"
      THEN [error |-> SubmitStarError(OracleThrew), verifyCalled |-> TRUE]
      ELSE IF ~verified(answer)
        THEN [error |-> SubmitStarError(ValidationFailed), verifyCalled |-> TRUE]
        ELSE [error |-> NoError, verifyCalled |-> TRUE]

\* bc.submitStar(address, message, signature, star); `answer` is what
\* bitcoinMessage.verify(message, address, signature) does for these arguments
StartSubmit(address, message, answer, star) ==
  /\ MayCall
  /\ LET messageTime == parseInt(message, 1)
         currentTime == Num(getTimeStamp(clock))
         delta == Minus(currentTime, messageTime)
         checks == submitChecks(delta, answer)
         c == [NewCall("submit") EXCEPT !.delta = delta, !.oracle = answer,
                                        !.verifyCalled = checks.verifyCalled]
         ref == Len(heap) + 1
         r == addBlockStart(c, ref, Append(heap, NewBlock(StarData(address, star))))
     IN  IF checks.error # NoError
           THEN /\ calls' = Append(Archive, Settled(c, "rejected", checks.error, 0))
                /\ UNCHANGED <<heap, queue>>
           ELSE /\ heap' = r.heap
                /\ calls' = Append(Archive, r.call)
                /\ queue' = Append(queue, Len(calls) + 1)
  /\ UNCHANGED <<chain, height, clock, tamperLog>>

\* bc.validateChain()
StartValidate ==
  /\ MayCall
  /\ LET c == validateChainStart(NewCall("validate"), heap)
     IN  IF Len(chain) = 0
           THEN /\ calls' = Append(Archive, Settled(c, "resolved", NoError, 0))
                /\ queue' = queue
           ELSE /\ calls' = Append(Archive, c)
                /\ queue' = Append(queue, Len(calls) + 1)
  /\ heap' = validateChainStartHeap(heap)
  /\ UNCHANGED <<chain, height, clock, tamperLog>>

\* bc.getStarsByWalletAddress(address)
StartStars(address) ==
  /\ Cardinality({p \in 1..Len(calls) : calls[p].kind = "stars"}) < MaxLookups
  /\ LET c == getStarsStart(NewCall("stars"), address)
     IN  /\ calls' = Append(Archive, c)
         /\ queue' = IF c.pc = "done" THEN queue ELSE Append(queue, Len(calls) + 1)
  /\ UNCHANGED <<chain, height, heap, clock, tamperLog>>

----------------------------------------------------------------------------
(* One microtask: the continuation at the head of the queue runs to its next await *)

Step ==
  /\ queue # <<>>
  /\ LET p == Head(queue)
         c == calls[p]
         again == Append(Tail(queue), p)
     IN  CASE c.pc = "loop" ->
                \* validateChain resumed after `await block.validate()`
                LET d == validateChainLoop(c)
                IN  /\ calls' = [calls EXCEPT ![p] = d]
                    /\ queue' = IF d.pc = "done" THEN Tail(queue) ELSE again
                    /\ heap' = validateChainLoopHeap(c)
                    /\ UNCHANGED <<chain, height>>
          [] c.pc = "resume" ->
                \* _addBlock resumed after `await self.validateChain()`
                IF addBlockRejects(c)
                  THEN /\ UNCHANGED <<chain, height, heap>>
                       /\ IF c.kind = "submit"
                            THEN /\ calls' = [calls EXCEPT ![p] =
                                      [c EXCEPT !.pc = "settle",
                                                !.inner = AddNewBlockError(ChainIsInvalid)]]
                                 /\ queue' = again
                            ELSE /\ calls' = [calls EXCEPT ![p] =
                                      Settled(c, "rejected", AddNewBlockError(ChainIsInvalid), 0)]
                                 /\ queue' = Tail(queue)
                  ELSE /\ chain' = Append(chain, c.block)
                       /\ height' = counted(height)
                       /\ heap' = heap
                       /\ IF c.kind = "submit"
                            THEN /\ calls' = [calls EXCEPT ![p] = [c EXCEPT !.pc = "settle"]]
                                 /\ queue' = again
                            ELSE /\ calls' = [calls EXCEPT ![p] =
                                      Settled(c, "resolved", NoError, c.block)]
                                 /\ queue' = Tail(queue)
          [] c.pc = "decode" ->
                \* getStarsByWalletAddress resumed after `await block.getBData()`
                LET d == getStarsLoop(c)
                IN  /\ calls' = [calls EXCEPT ![p] = d]
                    /\ queue' = IF d.pc = "done" THEN Tail(queue) ELSE again
                    /\ UNCHANGED <<chain, height, heap>>
          [] c.pc = "settle" ->
                \* submitStar resumed after `await this._addBlock(newBlock)`: resolve(block),
                \* or catch the AddNewBlockError and reject with a SubmitStarError of its message
                /\ calls' = [calls EXCEPT ![p] =
                      IF c.inner = NoError
                        THEN Settled(c, "resolved", NoError, c.block)
                        ELSE Settled(c, "rejected", SubmitStarError(c.inner[2]), 0)]
                /\ queue' = Tail(queue)
                /\ UNCHANGED <<chain, height, heap>>
  /\ UNCHANGED <<clock, tamperLog>>

----------------------------------------------------------------------------
(* The environment: the wall clock, and code outside the class writing to a stored block *)

Tick ==
  /\ clock < Clock0 + MaxTicks * TickMs
  /\ clock' = clock + TickMs
  /\ UNCHANGED <<chain, height, heap, calls, queue, tamperLog>>

ForgedHash == _hashBlock(NewBlock(<<"forged">>))
Fields == {"hash", "height", "body", "time", "previousBlockHash"}

\* the values an out-of-band write may store in a field
TamperValues(b, field) ==
  CASE field = "hash" -> {Null, ForgedHash} \ {b.hash}
    [] field = "previousBlockHash" -> {Null, ForgedHash} \ {b.previousBlockHash}
    [] field = "height" -> {b.height + 1}
    [] field = "time" -> {b.time + 1}
    [] field = "body" -> {toHex(JSONstringifyData(StarData("mallory", "Sirius"))),
                          <<"garbled">>} \ {b.body}

\* bc.chain[i][field] = v, by code outside the class
Tamper(i, field, v) ==
  /\ Len(tamperLog) < MaxTampers
  /\ i < Len(chain)
  /\ heap' = [heap EXCEPT ![chain[i + 1]][field] = v]
  /\ tamperLog' = Append(tamperLog, <<i, field>>)
  /\ UNCHANGED <<chain, height, clock, calls, queue>>

----------------------------------------------------------------------------
(* Specifications *)

\* Spec: calls may overlap, and stored blocks may be written to at any point between
\* two microtasks; a lookup takes the place of one of the MaxCalls calls
Next ==
  \/ \E a \in Addresses, s \in Stars, h \in CallerHeights : StartAppend(a, s, h)
  \/ \E a \in Addresses, s \in Stars, o \in OracleAnswers :
       \E m \in Messages(a, clock) : StartSubmit(a, m, o, s)
  \/ StartValidate
  \/ MayCall /\ \E a \in Addresses : StartStars(a)
  \/ Step
  \/ \E i \in 0..MaxCalls, f \in Fields :
       i < Len(chain) /\ \E v \in TamperValues(BlockAt(heap, chain, i), f) : Tamper(i, f, v)

Spec == Init /\ [][Next]_vars

\* SpecSeq: every call is made after the calls before it have settled (the genesis
\* append included), time passes, and no stored block is written to out-of-band
NextSeq ==
  \/ Idle /\ \E a \in Addresses, s \in Stars, h \in CallerHeights : StartAppend(a, s, h)
  \/ Idle /\ \E a \in Addresses, s \in Stars, o \in OracleAnswers :
               \E m \in Messages(a, clock) : StartSubmit(a, m, o, s)
  \/ Idle /\ StartValidate
  \/ Step
  \/ Tick

SpecSeq == Init /\ [][NextSeq]_vars

\* SpecSerial: calls are made one after the other, each submit with a challenge just
\* issued, and stored blocks may be written to between two calls; the clock stands still
NextSerial ==
  \/ Idle /\ \E a \in Addresses, s \in Stars, h \in CallerHeights : StartAppend(a, s, h)
  \/ Idle /\ \E a \in Addresses, s \in Stars, o \in OracleAnswers :
               StartSubmit(a, requestMessageOwnershipVerification(a, clock), o, s)
  \/ Idle /\ StartValidate
  \/ Step
  \/ Idle /\ \E i \in 0..MaxCalls, f \in Fields :
       i < Len(chain) /\ \E v \in TamperValues(BlockAt(heap, chain, i), f) : Tamper(i, f, v)

SpecSerial == Init /\ [][NextSerial]_vars

\* SpecOverlap: calls may overlap (each submit with a challenge just issued); no stored
\* block is written to from outside the class, and the clock stands still
NextOverlap ==
  \/ \E a \in Addresses, s \in Stars, h \in CallerHeights : StartAppend(a, s, h)
  \/ \E a \in Addresses, s \in Stars, o \in OracleAnswers :
       StartSubmit(a, requestMessageOwnershipVerification(a, clock), o, s)
  \/ StartValidate
  \/ MayCall /\ \E a \in Addresses : StartStars(a)
  \/ Step

SpecOverlap == Init /\ [][NextOverlap]_vars

\* SpecLive: calls may overlap and the genesis block's hash may be overwritten at any
\* point between two microtasks; the event loop runs every queued microtask, so a
\* continuation that is in the queue is eventually resumed (weak fairness of Step)
NextLive ==
  \/ \E a \in Addresses, s \in Stars, h \in CallerHeights : StartAppend(a, s, h)
  \/ \E a \in Addresses, s \in Stars, o \in OracleAnswers :
       StartSubmit(a, requestMessageOwnershipVerification(a, clock), o, s)
  \/ StartValidate
  \/ Step
  \/ Len(chain) >= 1 /\ BlockAt(heap, chain, 0).hash # ForgedHash
       /\ Tamper(0, "hash", ForgedHash)

SpecLive == Init /\ [][NextLive]_vars /\ WF_vars(Step)

\* SpecLookup: appends, submits and lookups made one after the other, the lookups in
\* addition to the MaxCalls other calls; between two calls a stored block's body or
\* previousBlockHash may be written to
NextLookup ==
  \/ Idle /\ \E a \in Addresses, s \in Stars, h \in CallerHeights : StartAppend(a, s, h)
  \/ Idle /\ \E a \in Addresses, s \in Stars, o \in OracleAnswers :
               StartSubmit(a, requestMessageOwnershipVerification(a, clock), o, s)
  \/ Idle /\ \E a \in Addresses : StartStars(a)
  \/ Step
  \/ Idle /\ \E i \in 0..MaxCalls, f \in {"body", "previousBlockHash"} :
       i < Len(chain) /\ \E v \in TamperValues(BlockAt(heap, chain, i), f) : Tamper(i, f, v)

SpecLookup == Init /\ [][NextLookup]_vars

\* SpecReuse: calls made one after the other, among them appends of Block objects that
\* were appended before
NextReuse ==
  \/ Idle /\ \E a \in Addresses, s \in Stars, h \in CallerHeights : StartAppend(a, s, h)
  \/ Idle /\ \E ref \in 1..(MaxCalls + 1) : StartReappend(ref)
  \/ Idle /\ \E a \in Addresses, s \in Stars, o \in OracleAnswers :
               StartSubmit(a, requestMessageOwnershipVerification(a, clock), o, s)
  \/ Idle /\ StartValidate
  \/ Idle /\ \E a \in Addresses : StartStars(a)
  \/ Step

SpecReuse == Init /\ [][NextReuse]_vars

\* SpecBlock: one Block object outside any chain, as a caller may have left it, which
\* is sealed once and of which one field is then overwritten
BlockInputs ==
  {[hash |-> h, height |-> n, body |-> toHex(JSONstringifyData(StarData(a, s))),
    time |-> 0, previousBlockHash |-> q] :
     h \in {Null, ForgedHash}, n \in {0} \cup CallerHeights,
     a \in Addresses, s \in Stars, q \in {Null, ForgedHash}}

InitBlock ==
  /\ chain = <<>>
  /\ height = -1
  /\ clock = Clock0
  /\ calls = <<>>
  /\ queue = <<>>
  /\ tamperLog = <<>>
  /\ \E b \in BlockInputs : heap = <<b>>

SealBlock(previousHash, h) ==
  /\ tamperLog = <<>>
  /\ heap' = <<sealWith(heap[1], previousHash, clock, h)>>
  /\ tamperLog' = <<<<0, "seal">>>>
  /\ UNCHANGED <<chain, height, clock, calls, queue>>

CorruptBlock(field, v) ==
  /\ tamperLog = <<<<0, "seal">>>>
  /\ heap' = [heap EXCEPT ![1][field] = v]
  /\ tamperLog' = Append(tamperLog, <<0, field>>)
  /\ UNCHANGED <<chain, height, clock, calls, queue>>

NextBlock ==
  \/ \E q \in {Null, ForgedHash}, h \in 0..MaxCalls : SealBlock(q, h)
  \/ \E f \in Fields : \E v \in TamperValues(heap[1], f) : CorruptBlock(f, v)
  \/ Tick

SpecBlock == InitBlock /\ [][NextBlock]_vars

----------------------------------------------------------------------------
(* Properties *)

\* what validateChain looks for, on blocks given by value: a block whose stored hash
\* is not the digest of its other fields, or a declared predecessor hash that is not
\* the predecessor's hash
FailsValidation(blocks) ==
  \E k \in 1..Len(blocks) :
    \/ blocks[k].hash # SHA256(JSONstringify([blocks[k] EXCEPT !.hash = Null]))
    \/ /\ k > 1
       /\ blocks[k].previousBlockHash # Null
       /\ blocks[k].previousBlockHash # blocks[k - 1].hash

\* the calls that go through _addBlock
Appending == {"append", "submit"}

\* C1: an append or submit made while the committed chain holds a block that fails
\* validation settles rejected -- _addBlock with AddNewBlockError("Chain is invalid!"),
\* submitStar with a SubmitStarError of the same message -- and at that moment the
\* chain (block by block) and the cached height are what they were when the call was made.
C1_RejectedAppendLeavesChain ==
  [][\A p \in 1..Len(calls) :
       LET c == calls[p]
           d == calls'[p]
       IN  (/\ c.kind \in Appending
            /\ c.status = "pending" /\ d.status # "pending"
            /\ FailsValidation(c.preChain))
           => /\ d.status = "rejected"
              /\ d.error = IF c.kind = "submit" THEN SubmitStarError(ChainIsInvalid)
                                                 ELSE AddNewBlockError(ChainIsInvalid)
              /\ ChainBlocks(heap', chain') = c.preChain
              /\ height' = c.preHeight]_vars

\* C1 witness: a submit and a direct append have both been rejected because a stored
\* block had been tampered with
C1_Witness ==
  /\ tamperLog # <<>>
  /\ \E p \in 1..Len(calls) :
       /\ calls[p].kind = "submit" /\ calls[p].status = "rejected"
       /\ calls[p].error = SubmitStarError(ChainIsInvalid)
  /\ \E p \in 1..Len(calls) :
       /\ calls[p].kind = "append" /\ calls[p].status = "rejected"
       /\ calls[p].error[1] = "AddNewBlockError"


\* C2 (as claimed): whenever an append commits, validateChain on the resulting chain
\* finds nothing, also when other appends or out-of-band writes fall between the
\* append's validation and its commit.
C2_CommittedChainValidates ==
  [][chain' # chain => ~FailsValidation(ChainBlocks(heap', chain'))]_vars

\* the committed blocks are numbered by their index and linked to their predecessor
HeightsAreIndexes == \A k \in 1..Len(chain) : heap[chain[k]].height = k - 1
Linked ==
  \A k \in 2..Len(chain) : heap[chain[k]].previousBlockHash = heap[chain[k - 1]].hash

\* C3: with calls made one after the other and no out-of-band write, every block after
\* the first carries the hash of its predecessor as previousBlockHash (and that hash
\* is a digest, not null).
C3_Linkage ==
  tamperLog = <<>> =>
    /\ Linked
    /\ \A k \in 1..Len(chain) : heap[chain[k]].hash # Null

\* C3 witness: two blocks have been appended after genesis, one of them by submitStar
C3_Witness ==
  /\ tamperLog = <<>>
  /\ Len(chain) = 3
  /\ \E p \in 1..Len(calls) : calls[p].kind = "submit" /\ calls[p].status = "resolved"

\* the calls through _addBlock that have resolved
Succeeded ==
  {p \in 1..Len(calls) : calls[p].kind \in Appending /\ calls[p].status = "resolved"}

\* C4: with calls made one after the other, once they have all settled the height is
\* the number of successful appends after genesis, and the block at every index i has
\* height i, whatever height the caller had written into the block.
C4_AppendMonotonicity ==
  /\ HeightsAreIndexes
  /\ Idle => /\ height = Cardinality(Succeeded)
             /\ Len(chain) = height + 1

\* C4 witness: two appends have succeeded, one of a block the caller had given height 7
C4_Witness ==
  /\ Idle
  /\ height = 2
  /\ \E p \in Succeeded : calls[p].kind = "append" /\ heap[calls[p].block].height \in {1, 2}
  /\ 7 \in CallerHeights

\* C5 (as claimed): under every interleaving of calls (no out-of-band write), no two
\* committed blocks carry the same height or the same previousBlockHash, every block
\* has its index as height and its predecessor's hash as previousBlockHash.
C5_AppendsSerialized ==
  tamperLog = <<>> =>
    /\ \A j, k \in 1..Len(chain) :
         j # k => /\ heap[chain[j]].height # heap[chain[k]].height
                  /\ heap[chain[j]].previousBlockHash # heap[chain[k]].previousBlockHash
    /\ HeightsAreIndexes
    /\ Linked

\* C6 (as claimed): as long as nothing has been called on the constructed chain, it
\* has height 0 and one block, of height 0 and without a previous hash, and it validates.
C6_GenesisAfterConstructor ==
  (Len(calls) = 1 /\ tamperLog = <<>>) =>
    /\ height = 0
    /\ Len(chain) = 1
    /\ heap[chain[1]].height = 0
    /\ heap[chain[1]].previousBlockHash = Null
    /\ ~FailsValidation(ChainBlocks(heap, chain))


\* C7: with calls made one at a time, once the payload of the stored block at height h
\* (and nothing else) has been overwritten, validateChain resolves with exactly one
\* issue: 'Block is not valid' with that block's stored hash and height h.
C7_TamperedPayloadOneIssue ==
  [][\A p \in 1..Len(calls) :
       LET c == calls[p]
           d == calls'[p]
           h == tamperLog[1][1]
       IN  (/\ c.kind = "validate" /\ c.status = "pending" /\ d.status = "resolved"
            /\ Len(tamperLog) = 1 /\ tamperLog[1][2] = "body")
           => d.errorLog = << <<"Block is not valid", BlockAt(heap, chain, h).hash, h>> >>]_vars

\* C7 witness: validateChain has reported one issue for a chain whose genesis payload
\* was overwritten and which holds a block after it
C7_Witness ==
  /\ tamperLog = <<<<0, "body">>>>
  /\ Len(chain) >= 2
  /\ \E p \in 1..Len(calls) :
       /\ calls[p].kind = "validate" /\ calls[p].status = "resolved"
       /\ Len(calls[p].errorLog) = 1

\* C8 (as claimed): a block that has been sealed validates, and no longer validates
\* once its height, time, previousBlockHash or body has been changed.
C8_SealValidateRoundTrip ==
  /\ tamperLog = <<<<0, "seal">>>> => validate(heap[1])
  /\ (/\ Len(tamperLog) = 2
      /\ tamperLog[1] = <<0, "seal">>
      /\ tamperLog[2][2] \in {"height", "time", "previousBlockHash", "body"})
     => ~validate(heap[1])

\* the call made by this step, if it makes one
CallMade == Len(calls') = Len(calls) + 1
Made == calls'[Len(calls')]
NothingDone == chain' = chain /\ height' = height /\ heap' = heap /\ queue' = queue

C10_BadSignatureRejected ==
  [][(/\ CallMade /\ Made.kind = "submit"
      /\ ~Made.delta.nan /\ Made.delta.val <= limitTime
      /\ Made.oracle = "false")
     => /\ Made.status = "rejected"
        /\ Made.error = SubmitStarError(ValidationFailed)
        /\ NothingDone]_vars

\* C10 witness: such a submit has been rejected on a chain that holds a submitted block
C10_Witness ==
  /\ Len(chain) >= 2
  /\ \E p \in 1..Len(calls) :
       /\ calls[p].kind = "submit" /\ calls[p].status = "rejected"
       /\ calls[p].oracle = "false" /\ calls[p].delta = Num(300)
       /\ calls[p].error = SubmitStarError(ValidationFailed)

\* C11 (as claimed): a submit whose message carries no integer issue time (no second
\* field, or one that is not a number) is rejected with a SubmitStarError and appends
\* nothing, even when the oracle accepts the signature.
C11_MalformedChallengeRejected ==
  [][(CallMade /\ Made.kind = "submit" /\ Made.delta.nan)
     => /\ Made.status = "rejected"
        /\ Made.error[1] = "SubmitStarError"
        /\ NothingDone]_vars

\* C12: with calls made one at a time, on chains whose blocks may have been written to:
\* getStarsByWalletAddress made on a chain that holds only the genesis block resolves at
\* once with the empty list; no record it collects is decoded from the block at index 0;
\* and it is rejected only when getBData of a block at index >= 1 is rejected, never
\* because of the genesis block.
C12_GenesisExcluded ==
  [][/\ (CallMade /\ Made.kind = "stars" /\ Len(chain) = 1)
          => (Made.status = "resolved" /\ Made.stars = <<>>)
     /\ \A p \in 1..Len(calls') :
          calls'[p].kind = "stars" =>
            /\ \A k \in 1..Len(calls'[p].from) : calls'[p].from[k] # chain'[1]
            /\ (calls'[p].status = "rejected" /\ p \in Pending)
                 => \E k \in 2..Len(chain) : getBData(heap[chain[k]])[1] = "rejected"]_vars

\* C12 witness: a lookup on the genesis-only chain has resolved with the empty list,
\* and the genesis block is one whose getBData is rejected
C12_Witness ==
  /\ Len(chain) = 1
  /\ getBData(heap[chain[1]])[1] = "rejected"
  /\ \E p \in 1..Len(calls) :
       /\ calls[p].kind = "stars" /\ calls[p].status = "resolved"
       /\ calls[p].stars = <<>>

\* C13: with calls made one at a time and no stored block written to, when
\* getStarsByWalletAddress(A) resolves, its records are exactly the payloads of the
\* blocks at index >= 1 whose owner is A, one per block, in chain order; each carries
\* owner A, and no block of another owner contributes a record.
C13_OwnerIsolation ==
  [][\A p \in 1..Len(calls) :
       LET c == calls[p]
           d == calls'[p]
           payload(r) == JSONparseData(hex2ascii(heap[r].body))
           mine(r) == owner(payload(r)) = d.address
           expected == SelectSeq(SubSeq(chain, 2, Len(chain)), mine)
       IN  (/\ c.kind = "stars" /\ c.status = "pending" /\ d.status = "resolved"
            /\ tamperLog = <<>>)
           => /\ d.from = expected
              /\ d.stars = [k \in 1..Len(expected) |-> payload(expected[k])]
              /\ \A k \in 1..Len(d.stars) : d.stars[k][1] = d.address
              /\ \A k \in 2..Len(chain) :
                   owner(payload(chain[k])) # d.address
                     => \A j \in 1..Len(d.from) : d.from[j] # chain[k]]_vars

\* C13 witness: the chain holds a block of addrA and, after it, one of addrB, and the
\* lookup for addrB has resolved with the one record of the second
C13_Witness ==
  /\ tamperLog = <<>>
  /\ Len(chain) = 3
  /\ owner(JSONparseData(hex2ascii(heap[chain[2]].body))) = "addrA"
  /\ owner(JSONparseData(hex2ascii(heap[chain[3]].body))) = "addrB"
  /\ \E p \in 1..Len(calls) :
       /\ calls[p].kind = "stars" /\ calls[p].status = "resolved"
       /\ calls[p].address = "addrB"
       /\ calls[p].stars = <<StarData("addrB", "Polaris")>>
       /\ calls[p].from = <<chain[3]>>

\* C14 (as claimed): a lookup that is rejected is rejected with a GetStarByOwnerError;
\* and as long as no stored block has been written to, getBData of every committed
\* block at index >= 1 resolves and no lookup is rejected.
C14_LookupAbortsOnCorruption ==
  [][/\ \A p \in 1..Len(calls) :
          (/\ calls[p].kind = "stars" /\ calls[p].status = "pending"
           /\ calls'[p].status # "pending")
          => /\ calls'[p].status = "rejected" => calls'[p].error[1] = "GetStarByOwnerError"
             /\ tamperLog = <<>> => calls'[p].status = "resolved"
     /\ tamperLog' = <<>> =>
          \A k \in 2..Len(chain') : getBData(heap'[chain'[k]])[1] = "resolved"]_vars

\* C15 (as claimed): with calls made one at a time, validateChain resolves with the
\* empty list exactly when every stored block validates and every block after the
\* first carries its predecessor's stored hash; and every block after the first whose
\* previousBlockHash differs from its predecessor's hash (null included) is reported
\* as 'Block is wrongly linked'.
C15_EmptyIffConsistent ==
  [][\A p \in 1..Len(calls) :
       LET c == calls[p]
           d == calls'[p]
           blocks == ChainBlocks(heap, chain)
           unlinked == {k \in 2..Len(blocks) :
                          blocks[k].previousBlockHash # blocks[k - 1].hash}
       IN  (c.kind = "validate" /\ c.status = "pending" /\ d.status = "resolved")
           => /\ d.errorLog = <<>>
                   <=> ((\A k \in 1..Len(blocks) : validate(blocks[k])) /\ unlinked = {})
              /\ \A k \in unlinked :
                   \E n \in 1..Len(d.errorLog) :
                     d.errorLog[n] = BlockIsWronglyLinked(blocks[k], blocks[k - 1])]_vars

\* C16 (as claimed): across every step the chain before it is a prefix of the chain after
\* it, and unless the step is a write from outside the class no field of a block in
\* the chain changes, also when _addBlock is handed a block it has sealed before.
C16_AppendOnly ==
  [][/\ Len(chain') >= Len(chain)
     /\ \A k \in 1..Len(chain) : chain'[k] = chain[k]
     /\ tamperLog' = tamperLog
          => \A k \in 1..Len(chain) : heap'[chain[k]] = heap[chain[k]]]_vars

\* C17: with calls made one after the other: a submit whose challenge is older than the
\* limit is rejected at once with the expiry error, whatever the oracle would answer
\* (a bad signature included), without bitcoinMessage.verify being called and without
\* entering _addBlock; a submit enters _addBlock only after the freshness test has
\* passed and the oracle, called after it, has accepted; a submit rejected by either
\* check has constructed and appended nothing.
C17_CheckOrdering ==
  [][(CallMade /\ Made.kind = "submit") =>
       LET old == ~Made.delta.nan /\ Made.delta.val > limitTime
       IN  /\ old => /\ Made.status = "rejected"
                     /\ Made.error = SubmitStarError(TooMuchTime)
                     /\ ~Made.verifyCalled
           /\ Made.block # 0 => (~old /\ Made.verifyCalled /\ Made.oracle = "true")
           /\ Made.status = "rejected" => (Made.block = 0 /\ NothingDone)
           /\ Made.status = "pending" => Made.block # 0]_vars

\* C17 witness: a submit with an expired challenge and a signature the oracle would
\* reject has been rejected with the expiry error, the oracle not having been called
C17_Witness ==
  \E p \in 1..Len(calls) :
    /\ calls[p].kind = "submit" /\ calls[p].status = "rejected"
    /\ calls[p].delta = Num(301) /\ calls[p].oracle = "false"
    /\ calls[p].error = SubmitStarError(TooMuchTime)
    /\ ~calls[p].verifyCalled /\ calls[p].block = 0
    /\ Len(chain) >= 2

\* C18: with overlapping calls and no write from outside the class: a step of
\* validateChain (its start, or its loop resumed after an await) leaves every block,
\* the chain and height as they were; no step at all changes a block of the chain
\* (Block.validate has written the hash back when it returns); and in every state
\* between two steps no stored hash is null: getBlockByHash(null) finds nothing and
\* the hash of the tail, which an append would read, is not null.
C18_ValidationReadOnly ==
  [][/\ (\/ CallMade /\ Made.kind = "validate"
         \/ \E p \in 1..Len(calls) : calls[p].pc = "loop" /\ calls'[p] # calls[p])
        => (heap' = heap /\ chain' = chain /\ height' = height)
     /\ \A k \in 1..Len(chain) : heap'[chain[k]] = heap[chain[k]]
     /\ getBlockByHash(Null)' = 0
     /\ Len(chain') > 0 => tailHash(heap)' # Null]_vars

\* C18 witness: a validateChain is in progress, past the first block, on a chain to
\* which an overlapping append has committed a block since the validation started
C18_Witness ==
  \E p \in 1..Len(calls) :
    /\ calls[p].kind = "validate" /\ calls[p].pc = "loop" /\ calls[p].i >= 1
    /\ Len(calls[p].preChain) < Len(chain)
    /\ \E q \in 1..Len(calls) : calls[q].kind \in Appending /\ calls[q].status = "resolved"

\* C19: with overlapping calls and no write from outside the class, in every state
\* (also between two microtasks of appends in flight) height is the length of the chain
\* minus one, so -1 exactly when the chain is empty, and every block in the chain has a
\* hash that is not null.
C19_CachedHeight ==
  /\ height = Len(chain) - 1
  /\ height = -1 <=> chain = <<>>
  /\ \A k \in 1..Len(chain) : heap[chain[k]].hash # Null

\* C19 witness: one of two overlapping appends has committed its block while the other,
\* made before that commit, is still in flight
C19_Witness ==
  /\ Len(chain) >= 2
  /\ \E p, q \in 1..Len(calls) :
       /\ calls[p].kind \in Appending /\ calls[p].status = "resolved"
       /\ calls[q].kind \in Appending /\ calls[q].status = "pending"
       /\ calls[q].preHeight < height

\* C20 (as claimed): with overlapping calls and no write from outside the class, in
\* every state the first block of the chain is the genesis block and the only one with
\* its payload, no block after it has previousBlockHash null or height 0, and so no
\* call made after the constructor returned commits such a block.
C20_GenesisPrecedence ==
  LET genesisBody == toHex(JSONstringifyData(GenesisData))
  IN  /\ Len(chain) >= 1 => heap[chain[1]].body = genesisBody
      /\ \A k \in 2..Len(chain) :
           /\ heap[chain[k]].body # genesisBody
           /\ heap[chain[k]].previousBlockHash # Null
           /\ heap[chain[k]].height # 0

\* C21: with overlapping calls, writes to stored hashes from outside the class, and an
\* event loop that runs every queued microtask: every call of submitStar and _addBlock
\* (and the validateChain it awaits) that is pending is eventually settled; a settled
\* call keeps its settlement for good; a submit that resolved did so with a block that
\* is in the chain, and one that was rejected carries a SubmitStarError (an append: an
\* AddNewBlockError).
C21_CallsSettleOnce ==
  /\ [][\A p \in 1..Len(calls) :
          /\ calls[p].status # "pending"
               => /\ calls'[p].status = calls[p].status
                  /\ calls'[p].result = calls[p].result
                  /\ calls[p].status = "rejected"
                       => calls'[p].error[1] = calls[p].error[1]
          /\ (calls'[p].kind = "submit" /\ calls'[p].status = "resolved")
               => \E k \in 1..Len(chain') : chain'[k] = calls'[p].result
          /\ (calls'[p].kind = "submit" /\ calls'[p].status = "rejected")
               => calls'[p].error[1] = "SubmitStarError"
          /\ (calls'[p].kind = "append" /\ calls'[p].status = "rejected")
               => calls'[p].error[1] = "AddNewBlockError"]_vars
  /\ \A p \in 1..(MaxCalls + 1) :
       (p <= Len(calls) /\ calls[p].status = "pending")
         ~> (p <= Len(calls) /\ calls[p].status \in {"resolved", "rejected"})

\* C21 witness: a submit that went through _addBlock has been rejected with the
\* SubmitStarError made of the AddNewBlockError, and an append has resolved
C21_Witness ==
  /\ \E p \in 1..Len(calls) :
       /\ calls[p].kind = "submit" /\ calls[p].status = "rejected"
       /\ calls[p].error = SubmitStarError(ChainIsInvalid)
  /\ \E q \in 1..Len(calls) :
       /\ calls[q].kind \in Appending /\ calls[q].status = "resolved"
       /\ \E k \in 1..Len(chain) : chain[k] = calls[q].result

\* C22: with calls made one after the other, a submit whose message carries an issue
\* time is rejected for expiry exactly when now - issue time > limitTime; a challenge
\* whose issue time lies after the current time passes the freshness test, and when the
\* oracle accepts its signature the block is constructed and handed to _addBlock.
C22_FreshnessOneSided ==
  [][(CallMade /\ Made.kind = "submit" /\ ~Made.delta.nan) =>
       /\ (Made.status = "rejected" /\ Made.error = SubmitStarError(TooMuchTime))
            <=> Made.delta.val > limitTime
       /\ Made.delta.val < 0 =>
            /\ Made.verifyCalled
            /\ Made.oracle = "true" => (Made.status = "pending" /\ Made.block # 0)]_vars

\* C22 witness: a submit with a challenge dated one second after the current time has
\* resolved with a block that is in the chain
C22_Witness ==
  \E p \in 1..Len(calls) :
    /\ calls[p].kind = "submit" /\ calls[p].status = "resolved"
    /\ calls[p].delta = Num(-1)
    /\ \E k \in 2..Len(chain) : chain[k] = calls[p].result

====
